---------------------------- MODULE Spec2Model ----------------------------
(***************************************************************************)
(* A model of src/app.py: PersonalAssistantBot (profile extraction, prompt *)
(* composition, topic memory) and the Streamlit conversation shell.        *)
(*                                                                         *)
(* Text.  A Python str is a sequence of pieces.  A piece that is a string  *)
(* of length one is that character.  The piece EAcute stands for the one   *)
(* non-ASCII character U+00E9.  Every other longer piece is a literal of   *)
(* the source, copied verbatim between its quotes, or the name of a long   *)
(* literal block of the source (base_persona, response_guidelines, the     *)
(* templates): a block is never compared piecewise, so a substring test    *)
(* can only succeed inside text that was built from characters.            *)
(***************************************************************************)
EXTENDS Integers, Sequences, FiniteSets, TLC

VARIABLES
    document,          \* the document behind pdf_path at construction
    personal_info,     \* self.personal_info
    user_preferences,  \* self.context_memory["user_preferences"]
    previous_topics,   \* self.context_memory["previous_topics"]
    query,             \* user_query of the latest generate_response call
    history,           \* chat_history of that call
    prompt,            \* the prompt _build_context_prompt returned for it
    outcome,           \* how the inference call of that call ended
    error,             \* str(e) of the exception caught in that call
    response,          \* the value that call returned
    before,            \* previous_topics when that call began
    added,             \* the topics _update_context appended in that call
    appended,          \* every topic ever handed to extend(), in order
    calls,             \* number of generate_response calls on this object
    messages,          \* st.session_state.messages
    state,             \* AwaitingInput or Responding
    rendered           \* what the assistant chat_message block rendered

vars == <<document, personal_info, user_preferences, previous_topics, query,
          history, prompt, outcome, error, response, before, added, appended,
          calls, messages, state, rendered>>

----------------------------------------------------------------------------
(* Bounds of the model *)

MaxCalls == 2
MaxTurns == 4

(* Constants of the program *)

TopicLimit == 5
TopicsPerTurn == 3
MinWordLen == 4
RecentWindow == 3
FollowUpEvery == 3

----------------------------------------------------------------------------
(* Characters *)

EAcute == "U+00E9"

UpperCase == <<"A", "B", "C", "D", "E", "F", "G", "H", "I", "J", "K", "L", "M",
               "N", "O", "P", "Q", "R", "S", "T", "U", "V", "W", "X", "Y", "Z">>
LowerCase == <<"a", "b", "c", "d", "e", "f", "g", "h", "i", "j", "k", "l", "m",
               "n", "o", "p", "q", "r", "s", "t", "u", "v", "w", "x", "y", "z">>
Digits == {"0", "1", "2", "3", "4", "5", "6", "7", "8", "9"}

Range(s) == {s[i] : i \in DOMAIN s}

\* str.lower() on one character
LowerChar(c) ==
    IF c \in Range(UpperCase)
    THEN LowerCase[CHOOSE i \in DOMAIN UpperCase : UpperCase[i] = c]
    ELSE c

\* str.lower()
Lower(text) == [i \in DOMAIN text |-> LowerChar(text[i])]

\* the class \w of a str pattern: Unicode letters, digits and the underscore
WordChars == Range(UpperCase) \cup Range(LowerCase) \cup Digits \cup {"_", EAcute}

IsWordChar(c) == c \in WordChars

\* the class \s
IsSpace(c) == c \in {" ", "\n", "\t", "\r"}

LastN(s, n) == IF Len(s) <= n THEN s ELSE SubSeq(s, Len(s) - n + 1, Len(s))

\* sub in text
Contains(text, sub) ==
    \E i \in 0..(Len(text) - Len(sub)) :
        \A j \in 1..Len(sub) : text[i + j] = sub[j]

RECURSIVE Flatten(_)
Flatten(ss) == IF ss = <<>> THEN <<>> ELSE Head(ss) \o Flatten(Tail(ss))

----------------------------------------------------------------------------
(* Profile Extractor *)

\* re.sub(r'\s+', ' ', text): every run of whitespace becomes one space
RECURSIVE CollapseSpaces(_)
CollapseSpaces(text) ==
    IF text = <<>> THEN <<>>
    ELSE IF IsSpace(Head(text))
         THEN IF Len(text) > 1 /\ IsSpace(text[2])
              THEN CollapseSpaces(Tail(text))
              ELSE <<" ">> \o CollapseSpaces(Tail(text))
         ELSE <<Head(text)>> \o CollapseSpaces(Tail(text))

\* str.strip() of a text whose whitespace is already collapsed
Strip(text) ==
    LET a == IF text # <<>> /\ IsSpace(Head(text)) THEN Tail(text) ELSE text
    IN  IF a # <<>> /\ IsSpace(a[Len(a)]) THEN SubSeq(a, 1, Len(a) - 1) ELSE a

\* text.replace('. ', '.\n')
RECURSIVE ReplaceDotSpace(_)
ReplaceDotSpace(text) ==
    IF text = <<>> THEN <<>>
    ELSE IF Len(text) > 1 /\ text[1] = "." /\ text[2] = " "
         THEN <<".", "\n">> \o ReplaceDotSpace(Tail(Tail(text)))
         ELSE <<Head(text)>> \o ReplaceDotSpace(Tail(text))

clean_extracted_text(text) == ReplaceDotSpace(Strip(CollapseSpaces(text)))

\* The documents a path can lead to: one that cannot be opened, one whose
\* PdfReader construction fails, one whose page extraction fails, and one
\* that is read, with its pages' texts.
Documents ==
    { [status |-> "open_fails", pages |-> <<>>],
      [status |-> "read_fails", pages |-> <<>>],
      [status |-> "parse_fails", pages |-> <<>>],
      [status |-> "ok",
       pages |-> << <<"I", " ", "s", "p", "e", "a", "k", " ", " ", "H", "i",
                      "n", "d", "i", ".", " ">>,
                    <<"A", " ", "P", "r", "o", "f", "e", "s", "s", "i", "o",
                      "n", "a", "l", ".", " ", "o", "k">> >>] }

\* a variant whose except branch hands the error text back
extract_pdf_text_KeepsError(doc) ==
    IF doc.status = "ok"
    THEN clean_extracted_text(
             Flatten([i \in DOMAIN doc.pages |-> doc.pages[i] \o <<"\n">>]))
    ELSE <<"E", "r", "r", "o", "r">>

extract_pdf_text(doc) ==
    IF doc.status = "ok"
    THEN clean_extracted_text(
             Flatten([i \in DOMAIN doc.pages |-> doc.pages[i] \o <<"\n">>]))
    ELSE <<>>

common_languages ==
    << <<"E", "n", "g", "l", "i", "s", "h">>,
       <<"S", "p", "a", "n", "i", "s", "h">>,
       <<"F", "r", "e", "n", "c", "h">>,
       <<"G", "e", "r", "m", "a", "n">>,
       <<"M", "a", "n", "d", "a", "r", "i", "n">>,
       <<"A", "r", "a", "b", "i", "c">>,
       <<"H", "i", "n", "d", "i">>,
       <<"P", "o", "r", "t", "u", "g", "u", "e", "s", "e">>,
       <<"R", "u", "s", "s", "i", "a", "n">>,
       <<"J", "a", "p", "a", "n", "e", "s", "e">> >>

find_languages(info) ==
    SelectSeq(common_languages, LAMBDA lang : Contains(Lower(info), Lower(lang)))

\* the fields of _extract_preferences that the prompt reads
extract_preferences(info) ==
    [communication_style |->
         IF Contains(Lower(info), <<"p", "r", "o", "f", "e", "s", "s", "i", "o",
                                    "n", "a", "l">>)
         THEN <<"p", "r", "o", "f", "e", "s", "s", "i", "o", "n", "a", "l">>
         ELSE <<"c", "a", "s", "u", "a", "l">>,
     languages |-> find_languages(info)]

----------------------------------------------------------------------------
(* Context Composer: topic memory *)

\* the maximal runs of word characters of text, in order of occurrence
RECURSIVE WordRuns(_, _)
WordRuns(text, run) ==
    IF text = <<>>
    THEN IF run = <<>> THEN <<>> ELSE <<run>>
    ELSE IF IsWordChar(Head(text))
         THEN WordRuns(Tail(text), Append(run, Head(text)))
         ELSE (IF run = <<>> THEN <<>> ELSE <<run>>) \o WordRuns(Tail(text), <<>>)

\* re.findall(r'\b\w{4,}\b', text.lower())
Keywords(text) ==
    SelectSeq(WordRuns(Lower(text), <<>>), LAMBDA w : Len(w) >= MinWordLen)

\* the lists a set can be listed as, cut to its first n entries: the
\* iteration order of a Python set of str is not fixed
FirstOfSet(S, n) ==
    LET k == IF Cardinality(S) < n THEN Cardinality(S) ELSE n
    IN  {s \in [1..k -> S] : \A i, j \in 1..k : i # j => s[i] # s[j]}

\* a variant that keeps four keywords
extract_topics_Four(text) == FirstOfSet(Range(Keywords(text)), TopicsPerTurn + 1)

\* list(set(keywords))[:3]: every list _extract_topics can return
extract_topics(text) == FirstOfSet(Range(Keywords(text)), TopicsPerTurn)

\* a variant that keeps the oldest entries
update_context_KeepsHead(topics, memory) ==
    LET all == memory \o topics
    IN  IF Len(all) <= TopicLimit THEN all ELSE SubSeq(all, 1, TopicLimit)

\* previous_topics after extend(topics) and the cut to [-5:]
update_context(topics, memory) == LastN(memory \o topics, TopicLimit)

----------------------------------------------------------------------------
(* Context Composer: the prompt *)

\* json.dumps of one character of a str (ensure_ascii is on)
JsonEscapeChar(c) ==
    CASE c = "\"" -> <<"\\", "\"">>
      [] c = "\\" -> <<"\\", "\\">>
      [] c = "\n" -> <<"\\", "n">>
      [] c = "\r" -> <<"\\", "r">>
      [] c = "\t" -> <<"\\", "t">>
      [] c = EAcute -> <<"\\", "u", "0", "0", "e", "9">>
      [] OTHER -> <<c>>

\* json.dumps of a str
JsonString(text) ==
    <<"\"">> \o Flatten([i \in DOMAIN text |-> JsonEscapeChar(text[i])]) \o <<"\"">>

\* json.dumps(..., indent=2) of a list of str two levels deep
JsonList(items) ==
    IF items = <<>> THEN <<"[]">>
    ELSE <<"[">>
         \o Flatten([i \in DOMAIN items |->
                (IF i = 1 THEN <<"\n      ">> ELSE <<",\n      ">>)
                \o JsonString(items[i])])
         \o <<"\n    ]">>

\* json.dumps(context_sections, indent=2)
ContextSectionsJson(q, info, prefs, topics) ==
    <<"{\n  \"Personal Background\": ">> \o JsonString(info)
    \o <<",\n  \"Interaction Style\": {\n    \"Tone\": ">>
    \o JsonString(<<"f", "r", "i", "e", "n", "d", "l", "y">>)
    \o <<",\n    \"Communication Preferences\": ">>
    \o JsonString(prefs.communication_style)
    \o <<",\n    \"Languages\": ">> \o JsonList(prefs.languages)
    \o <<"\n  },\n  \"Conversation Context\": {\n    \"Previous Topics\": ">>
    \o JsonList(topics)
    \o <<",\n    \"Current Query\": ">> \o JsonString(q)
    \o <<"\n  }\n}">>

\* a variant that reads the first three turns
recent_context_Head(h) ==
    <<"\nRecent Conversation:">>
    \o Flatten([i \in 1..(IF Len(h) < RecentWindow THEN Len(h) ELSE RecentWindow) |->
                   <<"\n", h[i].role, ":", " ">> \o h[i].content])

\* recent_context: the heading and one line for each of chat_history[-3:]
recent_context(h) ==
    LET recent == LastN(h, RecentWindow)
    IN  <<"\nRecent Conversation:">>
        \o Flatten([i \in DOMAIN recent |->
                       <<"\n", recent[i].role, ":", " ">> \o recent[i].content])

\* "\n\n".join(parts)
RECURSIVE Join(_)
Join(parts) ==
    IF Len(parts) = 1 THEN Head(parts)
    ELSE Head(parts) \o <<"\n", "\n">> \o Join(Tail(parts))

\* a variant that leaves the context sections out when there is a history
build_context_prompt_NoSections(q, h, info, prefs, topics) ==
    IF h # <<>>
    THEN Join(<< <<"base_persona">>, <<"\nContext Information:">>,
                 <<"response_guidelines">>, recent_context(h) >>)
    ELSE Join(<< <<"base_persona">>, <<"\nContext Information:">>,
                 ContextSectionsJson(q, info, prefs, topics),
                 <<"response_guidelines">> >>)

\* _build_context_prompt; an absent chat_history and an empty one are both <<>>
build_context_prompt(q, h, info, prefs, topics) ==
    LET prompt_parts == << <<"base_persona">>, <<"\nContext Information:">>,
                           ContextSectionsJson(q, info, prefs, topics),
                           <<"response_guidelines">> >>
    IN  IF h # <<>>
        THEN Join(Append(prompt_parts, recent_context(h)))
        ELSE Join(prompt_parts)

\* a variant that returns the bare error text
Apology_Bare(err) == err

\* the f-string of the except branch of generate_response
Apology(err) ==
    <<"I'm having trouble processing that. Could you rephrase? Error: ">> \o err

----------------------------------------------------------------------------
(* Inputs *)

QHobbies == <<"W", "h", "a", "t", " ", "a", "r", "e", " ", "h", "i", "s", " ",
              "h", "o", "b", "b", "i", "e", "s", "?">>
QQuoted == <<"T", "e", "l", "l", " ", "\"", "m", "o", "r", "e", "\"">>
QShort == <<"h", "i">>
QFourWords == <<"J", "a", "v", "a", " ", "j", "a", "v", "a", " ", "c", "o", "d",
                "e", " ", "r", "u", "s", "t", " ", "p", "e", "r", "l">>
QUnderscore == <<"u", "s", "e", "r", "_", "i", "d", " ", "c", "a", "f", EAcute>>

\* the queries of direct calls
Queries == {QShort, QHobbies, QFourWords, QUnderscore}

\* the texts a user submits to the shell: st.chat_input returns no empty text
Submissions == {QHobbies, QQuoted}

\* response.text of a successful inference call
ModelTexts == {<<"S", "u", "r", "e", ".">>}

\* str(e) of a failed one
Errors == {<<"q", "u", "o", "t", "a">>}

UserTurn(text) == [role |-> "user", content |-> text]
AssistantTurn(text) == [role |-> "assistant", content |-> text]

\* the chat histories of direct calls with query q: the query alone, the
\* query as the last of four turns, the query outside the last three
Histories(q) ==
    { <<UserTurn(q)>>,
      <<AssistantTurn(<<"greeting">>), UserTurn(QShort),
        AssistantTurn(<<"o", "k">>), UserTurn(q)>>,
      <<AssistantTurn(<<"greeting">>), UserTurn(q), AssistantTurn(<<"o", "k">>),
        UserTurn(QHobbies), AssistantTurn(<<"o", "k">>)>> }

\* the arguments of direct calls: every query with chat_history left out
\* (None and the empty list read alike, as <<>>), and two of the queries
\* with each history
Arguments ==
    {[q |-> q, h |-> <<>>] : q \in Queries}
    \cup {[q |-> QShort, h |-> h] : h \in Histories(QShort)}
    \cup {[q |-> QUnderscore, h |-> h] : h \in Histories(QUnderscore)}

greeting == {<<"greeting[0]">>, <<"greeting[1]">>, <<"greeting[2]">>}
follow_up == {<<"follow_up[0]">>, <<"follow_up[1]">>, <<"follow_up[2]">>}

\* what the constructor and _update_context compute for each input, computed
\* once for the whole state space
ProfileOf == [doc \in Documents |-> extract_pdf_text(doc)]
PreferencesOf == [doc \in Documents |-> extract_preferences(ProfileOf[doc])]
TopicsOf == [q \in Queries \cup Submissions |-> extract_topics(q)]

----------------------------------------------------------------------------
(* PersonalAssistantBot *)

\* __init__: the profile, the preferences and an empty topic memory
Construct(doc) ==
    /\ document' = doc
    /\ personal_info' = ProfileOf[doc]
    /\ user_preferences' = PreferencesOf[doc]
    /\ previous_topics' = <<>>
    /\ appended' = <<>>
    /\ calls' = 0

\* generate_response up to the inference call: the prompt is composed
Compose(q, h) ==
    /\ query' = q
    /\ history' = h
    /\ before' = previous_topics'
    /\ prompt' = build_context_prompt(q, h, personal_info', user_preferences',
                                      previous_topics')

\* _update_context(user_query)
Remember(q) ==
    \E topics \in TopicsOf[q] :
        /\ added' = topics
        /\ appended' = appended \o topics
        /\ previous_topics' = update_context(topics, previous_topics)

\* generate_content returns and response.text is read
Returned(q, text) ==
    /\ Remember(q)
    /\ outcome' = "returned"
    /\ error' = <<>>
    /\ response' = text

\* generate_content raises: the except branch
Raised(q, err) ==
    /\ UNCHANGED <<previous_topics, appended>>
    /\ added' = <<>>
    /\ outcome' = "raised"
    /\ error' = err
    /\ response' = Apology(err)

\* generate_content returns, _update_context runs, response.text raises
TextRaised(q, err) ==
    /\ Remember(q)
    /\ outcome' = "text_raised"
    /\ error' = err
    /\ response' = Apology(err)

----------------------------------------------------------------------------
(* Direct calls of generate_response on one object, built from a document  *)
(* that cannot be opened or from one that is read                          *)

Init ==
    /\ \E doc \in {d \in Documents : d.status \in {"open_fails", "ok"}} :
          /\ document = doc
          /\ personal_info = ProfileOf[doc]
          /\ user_preferences = PreferencesOf[doc]
    /\ previous_topics = <<>>
    /\ appended = <<>>
    /\ calls = 0
    /\ query = <<>>
    /\ history = <<>>
    /\ prompt = <<>>
    /\ outcome = "none"
    /\ error = <<>>
    /\ response = <<>>
    /\ before = <<>>
    /\ added = <<>>
    /\ messages = <<>>
    /\ state = "AwaitingInput"
    /\ rendered = <<>>

Call(q, h) ==
    /\ calls < MaxCalls
    /\ calls' = calls + 1
    /\ query' = q
    /\ history' = h
    /\ before' = previous_topics
    /\ prompt' = build_context_prompt(q, h, personal_info, user_preferences,
                                      previous_topics)
    /\ UNCHANGED <<document, personal_info, user_preferences, messages, state,
                   rendered>>

GenerateReturns ==
    \E a \in Arguments : \E text \in ModelTexts :
        Call(a.q, a.h) /\ Returned(a.q, text)

GenerateRaises ==
    \E a \in Arguments : \E err \in Errors :
        Call(a.q, a.h) /\ Raised(a.q, err)

GenerateTextRaises ==
    \E a \in Arguments : \E err \in Errors :
        Call(a.q, a.h) /\ TextRaised(a.q, err)

Next == GenerateReturns \/ GenerateRaises \/ GenerateTextRaises

Spec == Init /\ [][Next]_vars

----------------------------------------------------------------------------
(* The conversation shell: one script run for each event of a session *)

\* lines 265-271: an empty session state is seeded with one greeting
ShellInit ==
    /\ \E doc \in Documents :
          /\ document = doc
          /\ personal_info = ProfileOf[doc]
          /\ user_preferences = PreferencesOf[doc]
    /\ previous_topics = <<>>
    /\ appended = <<>>
    /\ calls = 0
    /\ query = <<>>
    /\ history = <<>>
    /\ prompt = <<>>
    /\ outcome = "none"
    /\ error = <<>>
    /\ response = <<>>
    /\ before = <<>>
    /\ added = <<>>
    /\ \E g \in greeting : messages = <<AssistantTurn(g)>>
    /\ state = "AwaitingInput"
    /\ rendered = <<>>

UserTurns(log) == Cardinality({i \in DOMAIN log : log[i].role = "user"})

\* a new browser session: main() runs with no messages in the session state
NewSession ==
    /\ state = "AwaitingInput"
    /\ Len(messages) > 1
    /\ \E doc \in Documents : Construct(doc)
    /\ \E g \in greeting : messages' = <<AssistantTurn(g)>>
    /\ query' = <<>>
    /\ history' = <<>>
    /\ prompt' = <<>>
    /\ outcome' = "none"
    /\ error' = <<>>
    /\ response' = <<>>
    /\ before' = <<>>
    /\ added' = <<>>
    /\ rendered' = <<>>
    /\ UNCHANGED state

\* a submission: main() builds the assistant, the user turn is appended and
\* generate_response runs up to the inference call
Submit ==
    \E q \in Submissions : \E doc \in Documents :
        /\ state = "AwaitingInput"
        /\ UserTurns(messages) < MaxTurns
        /\ Construct(doc)
        /\ messages' = Append(messages, UserTurn(q))
        /\ Compose(q, messages')
        /\ state' = "Responding"
        /\ outcome' = "pending"
        /\ rendered' = <<>>
        /\ added' = <<>>
        /\ UNCHANGED <<error, response>>

\* a variant that counts the turns after the assistant turn is logged
show_follow_up_AfterAppend(log) == (Len(log) + 1) % FollowUpEvery = 0

\* line 296
show_follow_up(log) == Len(log) % FollowUpEvery = 0

\* a variant that logs the follow-up as a turn of its own
Finish_LogsFollowUp ==
    /\ IF Len(messages) % FollowUpEvery = 0
       THEN \E f \in follow_up :
               /\ rendered' = <<response', <<"*">> \o f \o <<"*">> >>
               /\ messages' = messages \o <<AssistantTurn(response'),
                                              AssistantTurn(f)>>
       ELSE /\ rendered' = <<response'>>
            /\ messages' = Append(messages, AssistantTurn(response'))
    /\ state' = "AwaitingInput"
    /\ calls' = calls + 1
    /\ UNCHANGED <<document, personal_info, user_preferences, query, history,
                   prompt, before>>

\* lines 293-304: the response is rendered, on some turns with a follow-up,
\* and logged as the assistant turn
Finish ==
    /\ IF show_follow_up(messages)
       THEN \E f \in follow_up : rendered' = <<response', <<"*">> \o f \o <<"*">> >>
       ELSE rendered' = <<response'>>
    /\ messages' = Append(messages, AssistantTurn(response'))
    /\ state' = "AwaitingInput"
    /\ calls' = calls + 1
    /\ UNCHANGED <<document, personal_info, user_preferences, query, history,
                   prompt, before>>

InferenceReturns ==
    /\ state = "Responding"
    /\ \E text \in ModelTexts : Returned(query, text)
    /\ Finish

\* a variant in which the exception leaves generate_response
InferenceRaises_Propagates ==
    /\ state = "Responding"
    /\ \E err \in Errors : error' = err
    /\ state' = "Crashed"
    /\ outcome' = "raised"
    /\ UNCHANGED <<document, personal_info, user_preferences, previous_topics,
                   query, history, prompt, response, before, added, appended,
                   calls, messages, rendered>>

InferenceRaises ==
    /\ state = "Responding"
    /\ \E err \in Errors : Raised(query, err)
    /\ Finish

InferenceTextRaises ==
    /\ state = "Responding"
    /\ \E err \in Errors : TextRaised(query, err)
    /\ Finish

Respond == InferenceReturns \/ InferenceRaises \/ InferenceTextRaises

ShellNext == NewSession \/ Submit \/ Respond

\* the inference call returns or raises
ShellSpec == ShellInit /\ [][ShellNext]_vars /\ WF_vars(Respond)

----------------------------------------------------------------------------
(* Properties *)

Min(a, b) == IF a < b THEN a ELSE b

ApologyOf(err) ==
    <<"I'm having trouble processing that. Could you rephrase? Error: ">> \o err

\* C1: after any sequence of generate_response calls the topic memory has at
\* most 5 entries and is the trailing min(5, total) entries of everything
\* _update_context has appended, in call order.
C1_MemoryIsTailOfAppended ==
    LET total == Len(appended)
        n == Min(TopicLimit, total)
    IN  /\ Len(previous_topics) <= 5
        /\ Len(previous_topics) = n
        /\ \A i \in 1..n : previous_topics[i] = appended[total - n + i]

\* more than five topics were appended, so the oldest ones were dropped
C1_Witness ==
    /\ Len(appended) > TopicLimit
    /\ Len(previous_topics) = TopicLimit
    /\ calls >= 2

\* C2: when the inference call fails, the topic memory still receives the
\* topics of the query, as it would on a successful call.
C2_FailureStillUpdatesMemory ==
    outcome = "raised" =>
        \E topics \in extract_topics(query) :
            /\ added = topics
            /\ previous_topics = LastN(before \o topics, TopicLimit)

\* C3: a failure of the inference call is not propagated: generate_response
\* returns the apology with the error text embedded, so the value returned
\* is always the model's text or the apology.
C3_FailureBecomesApology ==
    /\ outcome \in {"raised", "text_raised"} => response = ApologyOf(error)
    /\ outcome = "returned" => response \in ModelTexts
    /\ calls > 0 => outcome \in {"returned", "raised", "text_raised"}

\* a call whose inference call raised has returned
C3_Witness ==
    /\ outcome = "raised"
    /\ error \in Errors
    /\ calls > 0
    /\ Len(response) > Len(error)

\* C4 as claimed: for every query and every chat history the prompt contains
\* the literal query text.
C4_PromptContainsQuery == calls > 0 => Contains(prompt, query)

\* the characters json.dumps does not copy as they are
JsonEscaped == {"\"", "\\", "\n", "\r", "\t", EAcute}

InRecentTurns(q, h) ==
    \E i \in 1..Len(h) : i > Len(h) - RecentWindow /\ h[i].content = q

\* C4 as amended: the prompt contains the query as json.dumps writes it, and
\* it contains the literal query text whenever the query has no character
\* that json.dumps escapes or one of the last three turns of the chat
\* history has the query as its content.
C4_PromptContainsEscapedQuery ==
    calls > 0 =>
        /\ Contains(prompt, <<",\n    \"Current Query\": ">> \o JsonString(query))
        /\ (Range(query) \cap JsonEscaped = {} \/ InRecentTurns(query, history))
               => Contains(prompt, query)

\* a query with no escaped character, and a history whose last three turns
\* do not hold it
C4_Witness ==
    /\ calls > 0
    /\ query = QShort
    /\ Len(history) > RecentWindow
    /\ ~InRecentTurns(query, history)
    /\ Contains(prompt, query)

\* token is a whole word of text: it occurs there with no word character on
\* either side
IsWordOf(token, text) ==
    \E i \in 1..(Len(text) - Len(token) + 1) :
        /\ SubSeq(text, i, i + Len(token) - 1) = token
        /\ i = 1 \/ ~IsWordChar(text[i - 1])
        /\ i + Len(token) > Len(text) \/ ~IsWordChar(text[i + Len(token)])

\* the words of length four or more in the texts generate_response returns
ResponseWords ==
    UNION {Range(Keywords(r)) : r \in ModelTexts \cup {ApologyOf(e) : e \in Errors}}

TopicsOfTurn(TopicChars) ==
    calls > 0 =>
        /\ Len(added) <= 3
        /\ \A i, j \in DOMAIN added : i # j => added[i] # added[j]
        /\ \A i \in DOMAIN added :
              /\ Len(added[i]) >= 4
              /\ \A k \in DOMAIN added[i] :
                    /\ added[i][k] \in TopicChars
                    /\ added[i][k] \notin Range(UpperCase)
              /\ IsWordOf(added[i], Lower(query))
        /\ previous_topics = LastN(before \o added, TopicLimit)
        /\ Range(appended) \cap ResponseWords = {}
        /\ (\A i \in 1..(Len(query) - 3) :
               \E k \in i..(i + 3) : ~IsWordChar(query[k]))
               => previous_topics = before

\* C9 as claimed: each update appends at most 3 pairwise distinct tokens, each
\* a lowercased alphanumeric word of length 4 or more of the query; none
\* comes from the response; a query with no such word changes nothing.
C9_TopicsAreAlphanumericWords == TopicsOfTurn(WordChars \ {"_"})

\* C9 as amended: the same, with each token a lowercased word of letters,
\* digits and underscores (the class \w) of length 4 or more of the query.
C9_TopicsAreWordsOfQuery == TopicsOfTurn(WordChars)

\* a query with four different long words gave three topics
C9_Witness ==
    /\ query = QFourWords
    /\ outcome = "returned"
    /\ Len(added) = TopicsPerTurn
    /\ Len(before) = TopicsPerTurn

----------------------------------------------------------------------------
(* Properties of the conversation shell *)

IsVisibleText(text) == text \in ModelTexts \/ \E e \in Errors : text = ApologyOf(e)

\* C5: the turn log is append-only: a submission appends the user turn with
\* the submitted text, then one assistant turn with the text
\* generate_response returned, and changes no entry already logged.
C5_LogIsAppendOnly ==
    /\ [][(state = "AwaitingInput" /\ state' = "Responding")
             => /\ messages' = messages \o <<[role |-> "user", content |-> query']>>
                /\ query' \in Submissions]_vars
    /\ [][(state = "Responding" /\ state' # "Responding")
             => /\ messages' = messages \o <<[role |-> "assistant",
                                               content |-> response']>>
                /\ IsVisibleText(response')
                /\ messages[Len(messages)] = [role |-> "user", content |-> query]
                /\ state' = "AwaitingInput"]_vars
    /\ [][(state' = state /\ messages' # messages)
             => (state = "AwaitingInput" /\ Len(messages') = 1)]_vars

\* two submissions were logged, the second with a failed inference call
C5_Witness ==
    /\ state = "AwaitingInput"
    /\ Len(messages) = 5
    /\ outcome = "raised"
    /\ messages[5] = [role |-> "assistant", content |-> response]

\* C6: in a session seeded with one greeting a follow-up is shown for
\* exactly the 3rd, 6th, ... submission (log length a multiple of 3 right
\* after the user turn), and showing it adds no entry to the log and does
\* not change the logged assistant turn.
C6_FollowUpEveryThirdSubmission ==
    (state = "AwaitingInput" /\ outcome # "none") =>
        LET k == UserTurns(messages)
        IN  /\ Len(rendered) \in {1, 2}
            /\ Len(rendered) = 2 <=> k % 3 = 0
            /\ k % 3 = 0 <=> (Len(messages) - 1) % 3 = 0
            /\ Len(rendered) = 2 =>
                   \E f \in follow_up : rendered[2] = <<"*">> \o f \o <<"*">>
            /\ rendered[1] = response
            /\ Len(messages) = 2 * k + 1
            /\ messages[Len(messages)] = [role |-> "assistant", content |-> response]

\* the third submission of a session showed a follow-up
C6_Witness ==
    /\ state = "AwaitingInput"
    /\ UserTurns(messages) = 3
    /\ Len(rendered) = 2
    /\ Len(messages) = 7

\* C7: the shell is in AwaitingInput or Responding; a submission moves it
\* from AwaitingInput to Responding; if the inference call returns or
\* raises, Responding is followed by AwaitingInput with the assistant turn
\* logged; no reachable state is stuck.
C7_RespondingLeadsToAwaiting ==
    /\ [](state \in {"AwaitingInput", "Responding"})
    /\ [][(state = "AwaitingInput" /\ messages' = Append(messages, UserTurn(query')))
             => state' = "Responding"]_vars
    /\ [](ENABLED ShellNext)
    /\ (state = "Responding")
           ~> (/\ state = "AwaitingInput"
               /\ messages[Len(messages)] = AssistantTurn(response)
               /\ outcome \in {"returned", "raised", "text_raised"})

\* a failed inference call was answered and the shell awaits input again
C7_Witness ==
    /\ state = "AwaitingInput"
    /\ outcome = "raised"
    /\ messages[Len(messages)] = AssistantTurn(ApologyOf(error))

\* C8: for a document whose open, read or parse fails, _extract_pdf_text
\* returns the empty string, and the assistant is constructed with an empty
\* profile.
C8_FailedDocumentGivesEmptyProfile ==
    document.status # "ok" =>
        /\ personal_info = <<>>
        /\ user_preferences.languages = <<>>
        /\ user_preferences.communication_style = <<"c", "a", "s", "u", "a", "l">>
        /\ state \in {"AwaitingInput", "Responding"}

\* an assistant built from an unreadable document is answering a submission
C8_Witness ==
    /\ document.status = "parse_fails"
    /\ personal_info = <<>>
    /\ state = "Responding"
    /\ Len(prompt) > 0

\* the place of the heading of the recent conversation in a prompt
HeadingAt(p) == {i \in DOMAIN p : p[i] = "\nRecent Conversation:"}

\* C10: the Recent Conversation section holds exactly the trailing
\* min(3, length) turns of the history passed in, in log order; from the
\* shell the history ends with the current user turn, which is the last
\* turn of the section.
C10_RecentSectionIsLastThreeTurns ==
    outcome # "none" =>
        LET n == Min(3, Len(history))
            first == Len(history) - n
            line(i) == <<"\n", history[first + i].role, ":", " ">>
                       \o history[first + i].content
            lastLine == <<"\n", "user", ":", " ">> \o query
        IN  /\ Cardinality(HeadingAt(prompt)) = 1
            /\ \A at \in HeadingAt(prompt) :
                  SubSeq(prompt, at + 1, Len(prompt)) = Flatten([i \in 1..n |-> line(i)])
            /\ history[Len(history)] = [role |-> "user", content |-> query]
            /\ SubSeq(prompt, Len(prompt) - Len(lastLine) + 1, Len(prompt)) = lastLine
            /\ state = "Responding" => history = messages

\* a prompt composed from a log of more than three turns
C10_Witness ==
    /\ state = "Responding"
    /\ Len(history) = 4
    /\ Cardinality(HeadingAt(prompt)) = 1

=============================================================================
